---- MODULE Spec2Model ----
(***************************************************************************)
(* Model of the book-expert/logger package (src/logger.go): one Logger     *)
(* instance shared by several goroutines that call the seven severity      *)
(* methods and Close.  Strings are TLA+ strings; every statement of write  *)
(* and Close that touches shared state is one step of the calling          *)
(* goroutine.                                                              *)
(***************************************************************************)
EXTENDS Integers, Sequences, FiniteSets, TLC

(***************************************************************************)
(* Bounds of the model.                                                    *)
(***************************************************************************)
NumProcs == 2      \* goroutines sharing the instance
MaxCalls == 3      \* total number of method calls started in a behaviour

Procs == 1..NumProcs
NoProc == 0

(***************************************************************************)
(* Values.                                                                 *)
(***************************************************************************)
NilErr == "<nil>"          \* the nil error
NilPtr == "nil"            \* a nil pointer field
FilePtr == "*os.File"      \* l.logFile as set by createLoggerInstance
StdSink == "std"           \* log.New(os.Stdout, "", log.LstdFlags)
FileSink == "file"         \* log.New(f, "", log.LstdFlags)

maxLogMessageLength == 4096

StrArg(s) == [type |-> "string", val |-> s]
IntArg(n) == [type |-> "int", val |-> n]
ErrArg(e) == [type |-> "error", val |-> e]
Faulty == [type |-> "faulty", val |-> "boom"]   \* formatting it panics
\* An operand whose String method panics on every call with a value that
\* cannot be printed either: fmt re-raises such a nested panic.
FaultyAlways == [type |-> "faultyAlways", val |-> "boom"]

(***************************************************************************)
(* Inputs of the severity methods: (template, argument list) pairs, the    *)
(* calls of the package tests plus a call whose operand panics.            *)
(***************************************************************************)
In(format, args) == [format |-> format, args |-> args]

InputsOf(method) ==
    CASE method = "Info" ->
           { In("hello %s", <<StrArg("world")>>),
             In("", <<StrArg("some"), StrArg("args")>>),
             In("value: %v", <<Faulty>>) }
      [] method = "Warn" -> { In("warn %d", <<IntArg(42)>>) }
      [] method = "Error" -> { In("err %v", <<IntArg(1)>>) }
      [] method = "Success" -> { In("ok", <<>>) }
      [] method = "Fatal" ->
           { In("system failure: %s", <<StrArg("disk full")>>) }
      [] method = "Panic" ->
           { In("panic condition: %v", <<StrArg("nil pointer")>>) }
      [] method = "System" ->
           { In("system event: %s", <<StrArg("startup complete")>>) }

(***************************************************************************)
(* String helpers (package strings / strconv).                             *)
(***************************************************************************)
\* strings.Repeat(s, n)
RECURSIVE Repeat(_, _)
Repeat(s, n) ==
    IF n <= 0 THEN ""
    ELSE IF n % 2 = 0
         THEN LET half == Repeat(s, n \div 2) IN half \o half
         ELSE s \o Repeat(s, n - 1)

HasPrefix(s, prefix) ==
    /\ Len(s) >= Len(prefix)
    /\ SubSeq(s, 1, Len(prefix)) = prefix

Digit(d) == SubSeq("0123456789", d + 1, d + 1)

RECURSIVE Itoa(_)
Itoa(n) ==
    IF n < 0 THEN "-" \o Itoa(0 - n)
    ELSE IF n < 10 THEN Digit(n)
    ELSE Itoa(n \div 10) \o Digit(n % 10)

(***************************************************************************)
(* fmt.Sprintf for templates without flags, width or precision.            *)
(***************************************************************************)
TypeName(a) == IF a.type = "int" THEN "int" ELSE a.type

ValueText(a) ==
    IF a.type = "int" THEN Itoa(a.val) ELSE a.val

PrintArg(a, verb) ==
    IF a.type = "string" /\ verb \in {"s", "v"} THEN a.val
    ELSE IF a.type = "string" /\ verb = "q" THEN "\"" \o a.val \o "\""
    ELSE IF a.type = "int" /\ verb \in {"d", "v"} THEN Itoa(a.val)
    ELSE IF a.type = "error" /\ verb \in {"s", "v"} THEN a.val
    ELSE "%!" \o verb \o "(" \o TypeName(a) \o "=" \o ValueText(a) \o ")"

RECURSIVE ExtraArgs(_, _)
ExtraArgs(args, k) ==
    IF k > Len(args) THEN ""
    ELSE TypeName(args[k]) \o "=" \o ValueText(args[k])
         \o (IF k < Len(args) THEN ", " ELSE "")
         \o ExtraArgs(args, k + 1)

RECURSIVE DoPrintf(_, _, _, _)
DoPrintf(format, i, args, argNum) ==
    IF i > Len(format)
    THEN IF argNum < Len(args)
         THEN "%!(EXTRA " \o ExtraArgs(args, argNum + 1) \o ")"
         ELSE ""
    ELSE LET c == SubSeq(format, i, i) IN
         IF c # "%" THEN c \o DoPrintf(format, i + 1, args, argNum)
         ELSE IF i + 1 > Len(format) THEN "%!(NOVERB)"
                  \o DoPrintf(format, i + 1, args, argNum)
         ELSE LET verb == SubSeq(format, i + 1, i + 1) IN
              IF verb = "%"
              THEN "%" \o DoPrintf(format, i + 2, args, argNum)
              ELSE IF argNum >= Len(args)
              THEN "%!" \o verb \o "(MISSING)"
                   \o DoPrintf(format, i + 2, args, argNum)
              ELSE PrintArg(args[argNum + 1], verb)
                   \o DoPrintf(format, i + 2, args, argNum + 1)

Sprintf(format, args) == DoPrintf(format, 1, args, 0)

\* Sprintf panics when printing an operand panics; every operand is printed
\* (by its verb or in the EXTRA list).
SprintfPanics(args) ==
    \E k \in 1..Len(args) : args[k].type \in {"faulty", "faultyAlways"}

\* fmt.Fprintf(os.Stderr, loggerErrorFormatString, r, format, args) prints
\* every operand again under %v, and panics where that operand still panics.
ReportPanics(args) ==
    \E k \in 1..Len(args) : args[k].type = "faultyAlways"

\* fmt.Errorf(prefix + "%w", err): never the nil error.
Errorf(prefix, err) ==
    prefix \o (IF err = NilErr THEN "%!w(<nil>)" ELSE err)


(***************************************************************************)
(* The pure helpers of the Writer Core.                                    *)
(***************************************************************************)
validateFormat(format) ==
    IF format = "" THEN "(empty message)" ELSE format

\* Text of one operand under %v as it appears in the fault report.
ReportArg(a) ==
    IF a.type = "faulty" THEN "%!v(PANIC=String method: " \o a.val \o ")"
    ELSE ValueText(a)

RECURSIVE ReportArgs(_, _)
ReportArgs(args, k) ==
    IF k > Len(args) THEN ""
    ELSE ReportArg(args[k]) \o (IF k < Len(args) THEN " " ELSE "")
         \o ReportArgs(args, k + 1)

\* The line the deferred recover of safeFormat prints to os.Stderr.
FormatPanicReport(format, args) ==
    "[LOGGER ERROR] Format panic: boom, format=\"" \o format
        \o "\", args=[" \o ReportArgs(args, 1) \o "]"

\* Variant: the shortcut for calls without operands is missing.
safeFormat_AlwaysSprintf(format, args) ==
    IF SprintfPanics(args)
    THEN [result |-> "", report |-> <<FormatPanicReport(format, args)>>,
          escapes |-> FALSE]
    ELSE [result |-> Sprintf(format, args), report |-> <<>>,
          escapes |-> FALSE]

\* safeFormat: the returned string, the lines it prints to os.Stderr, and
\* whether a panic leaves the function.  The result is unnamed, so after the
\* deferred recover it is the zero string; the recover() placed after
\* Sprintf is never reached by a panic.  A panic raised by the Fprintf of
\* the deferred function is not recovered by anyone.
safeFormat(format, args) ==
    IF Len(args) = 0
    THEN [result |-> format, report |-> <<>>, escapes |-> FALSE]
    ELSE IF SprintfPanics(args)
         THEN IF ReportPanics(args)
              THEN [result |-> "", report |-> <<>>, escapes |-> TRUE]
              ELSE [result |-> "",
                    report |-> <<FormatPanicReport(format, args)>>,
                    escapes |-> FALSE]
         ELSE [result |-> Sprintf(format, args), report |-> <<>>,
               escapes |-> FALSE]

\* Variant: the separating space after the bracketed tag is left out.
formatLogMessage_NoSpace(level, formattedMsg) ==
    "[" \o level \o "]" \o formattedMsg

formatLogMessage(level, formattedMsg) ==
    "[" \o level \o "] " \o formattedMsg

\* Variant: a message of exactly the maximum length is cut as well.
Truncate_OffByOne(formattedMsg) ==
    IF Len(formattedMsg) >= maxLogMessageLength
    THEN SubSeq(formattedMsg, 1, maxLogMessageLength - 20) \o "... [TRUNCATED]"
    ELSE formattedMsg

Truncate(formattedMsg) ==
    IF Len(formattedMsg) > maxLogMessageLength
    THEN SubSeq(formattedMsg, 1, maxLogMessageLength - 20) \o "... [TRUNCATED]"
    ELSE formattedMsg

prepareMessage(level, format, args) ==
    formatLogMessage(level, Truncate(safeFormat(format, args).result))

FallbackLine(level, format, args) ==
    "[" \o level \o "] (logger closed) " \o safeFormat(format, args).result

\* Variant: only the console logger is built with log.LstdFlags.
Println_ConsoleOnly(sink, msg) == [stamped |-> sink = StdSink, text |-> msg]

\* log.Logger.Println with log.LstdFlags: a timestamp header, then the text.
Println(sink, msg) == [stamped |-> TRUE, text |-> msg]

(***************************************************************************)
(* Paths: the validators, path/filepath and the filesystem calls of New.   *)
(***************************************************************************)
\* Longest directory path and longest filename handed to New.
MaxDirLen == 3

MaxNameLen == 2

\* The characters the paths are spelled with: a letter, the dot, both
\* slashes and the tilde.
PathChars == {"a", ".", "/", "~", "\\"}

RECURSIVE Strings(_)
Strings(n) ==
    IF n = 0
    THEN {""}
    ELSE LET S == Strings(n - 1)
         IN  S \cup {s \o c : s \in {t \in S : Len(t) = n - 1}, c \in PathChars}

\* filepath.Separator on the platform of the build.
Separator == "/"

\* The working directory of the process.
cwd == "/w"

pathTraversalDots == ".."

ErrLogPathOutsideBounds == "log path outside directory bounds"

ErrPathCannotBeEmpty == "path cannot be empty"

ErrPathContainsInvalidChars == "path contains invalid characters"

ErrFilenameCannotBeEmpty == "filename cannot be empty"

ErrFilenameContainsInvalid == "filename contains invalid characters"

\* syscall.ENOTDIR and syscall.EISDIR; the *PathError that carries them is
\* abbreviated to the text of its Err.
ENOTDIR == "not a directory"

EISDIR == "is a directory"

RECURSIVE Contains(_, _)
\* strings.Contains(s, substr).
Contains(s, substr) ==
    \/ HasPrefix(s, substr)
    \/ /\ s # ""
       /\ Contains(Tail(s), substr)

containsInvalidPathChars_NoTilde(path) ==
    Contains(path, pathTraversalDots)

containsInvalidPathChars(path) ==
    \/ Contains(path, pathTraversalDots)
    \/ Contains(path, "~")

containsInvalidFilenameChars_NoBackslash(filename) ==
    \E char \in {"/", pathTraversalDots, "~"} :
        Contains(filename, char)

containsInvalidFilenameChars(filename) ==
    \E char \in {"/", "\\", pathTraversalDots, "~"} :
        Contains(filename, char)

ValidatePath(path) ==
    IF path = ""
    THEN ErrPathCannotBeEmpty
    ELSE IF containsInvalidPathChars(path)
         THEN ErrPathContainsInvalidChars
         ELSE NilErr

ValidateFilename(filename) ==
    IF filename = ""
    THEN ErrFilenameCannotBeEmpty
    ELSE IF containsInvalidFilenameChars(filename)
         THEN ErrFilenameContainsInvalid
         ELSE NilErr

validateInputs_FilenameFirst(logDir, filename) ==
    IF ValidateFilename(filename) # NilErr
    THEN Errorf("invalid filename: ", ValidateFilename(filename))
    ELSE IF ValidatePath(logDir) # NilErr
         THEN Errorf("invalid log directory: ", ValidatePath(logDir))
         ELSE NilErr

validateInputs(logDir, filename) ==
    IF ValidatePath(logDir) # NilErr
    THEN Errorf("invalid log directory: ", ValidatePath(logDir))
    ELSE IF ValidateFilename(filename) # NilErr
         THEN Errorf("invalid filename: ", ValidateFilename(filename))
         ELSE NilErr

RECURSIVE Elements(_, _)
\* The non-empty elements of a path between its separators; cur is the
\* element being read.
Elements(path, cur) ==
    IF path = ""
    THEN IF cur = "" THEN <<>> ELSE <<cur>>
    ELSE IF Head(path) = Head(Separator)
         THEN (IF cur = "" THEN <<>> ELSE <<cur>>) \o Elements(Tail(path), "")
         ELSE Elements(Tail(path), cur \o SubSeq(path, 1, 1))

RECURSIVE JoinElements(_)
JoinElements(elems) ==
    IF elems = <<>>
    THEN ""
    ELSE IF Len(elems) = 1
         THEN elems[1]
         ELSE elems[1] \o Separator \o JoinElements(Tail(elems))

RECURSIVE CleanElements(_, _, _)
\* The element loop of filepath.Clean: "." is dropped, ".." removes the
\* element before it, is dropped at the root and kept at the front of a
\* relative path.
CleanElements(elems, out, rooted) ==
    IF elems = <<>>
    THEN out
    ELSE LET e == Head(elems)
             rest == Tail(elems)
         IN  IF e = "."
             THEN CleanElements(rest, out, rooted)
             ELSE IF e = ".."
                  THEN IF Len(out) > 0 /\ out[Len(out)] # ".."
                       THEN CleanElements(rest, SubSeq(out, 1, Len(out) - 1), rooted)
                       ELSE IF rooted
                            THEN CleanElements(rest, out, rooted)
                            ELSE CleanElements(rest, Append(out, ".."), rooted)
                  ELSE CleanElements(rest, Append(out, e), rooted)

IsAbs(path) == HasPrefix(path, Separator)

\* filepath.Clean.
Clean(path) ==
    IF path = ""
    THEN "."
    ELSE LET rooted == IsAbs(path)
             out == CleanElements(Elements(path, ""), <<>>, rooted)
             r == (IF rooted THEN Separator ELSE "") \o JoinElements(out)
         IN  IF r = "" THEN "." ELSE r

\* filepath.Join of two elements.
Join(a, b) ==
    IF a # ""
    THEN Clean(a \o Separator \o b)
    ELSE IF b # "" THEN Clean(b) ELSE ""

\* filepath.Abs; os.Getwd does not fail.
Abs(path) ==
    IF IsAbs(path) THEN Clean(path) ELSE Join(cwd, path)

\* The directory a path lies in, and the directories above an absolute
\* path, the path included.
Dir(abs) ==
    LET elems == Elements(abs, "")
    IN  Separator \o JoinElements(SubSeq(elems, 1, Len(elems) - 1))

Ancestors(abs) ==
    LET elems == Elements(abs, "")
    IN  {Separator \o JoinElements(SubSeq(elems, 1, k)) : k \in 0..Len(elems)}

\* The filesystem New starts on: the root and the working directory, and
\* in the second one a regular file named a in the working directory.
InitialFilesystems ==
    {[dirs |-> {"/", cwd}, files |-> {}],
     [dirs |-> {"/", cwd}, files |-> {cwd \o Separator \o "a"}]}

\* os.MkdirAll(path, perm): the directory and its missing parents are
\* created, unless a regular file is in the way.
MkdirAll(f, path) ==
    LET above == Ancestors(Abs(path))
    IN  IF above \cap f.files # {}
        THEN [fs |-> f, err |-> ENOTDIR]
        ELSE [fs |-> [f EXCEPT !.dirs = @ \cup above], err |-> NilErr]

\* os.OpenFile(path, O_CREATE|O_APPEND|O_WRONLY, perm).
OpenFile(f, path) ==
    LET abs == Abs(path)
    IN  IF abs \in f.dirs
        THEN [fs |-> f, err |-> EISDIR]
        ELSE IF Ancestors(Dir(abs)) \cap f.files # {}
             THEN [fs |-> f, err |-> ENOTDIR]
             ELSE IF Dir(abs) \notin f.dirs
                  THEN [fs |-> f, err |-> "no such file or directory"]
                  ELSE [fs |-> [f EXCEPT !.files = @ \cup {abs}], err |-> NilErr]

setupLogDirectory(f, logDir, filename) ==
    LET made == MkdirAll(f, logDir)
    IN  IF made.err # NilErr
        THEN [fs |-> made.fs, logPath |-> "",
              err |-> Errorf("create log dir: ", made.err)]
        ELSE [fs |-> made.fs, logPath |-> Join(logDir, filename), err |-> NilErr]

validateLogPath_NoSeparator(logDir, logPath) ==
    IF ~HasPrefix(Abs(logPath), Abs(logDir))
    THEN ErrLogPathOutsideBounds
    ELSE NilErr

validateLogPath(logDir, logPath) ==
    IF ~HasPrefix(Abs(logPath) \o Separator, Abs(logDir) \o Separator)
    THEN ErrLogPathOutsideBounds
    ELSE NilErr

openLogFile(f, logPath) ==
    LET opened == OpenFile(f, logPath)
    IN  IF opened.err # NilErr
        THEN [fs |-> opened.fs, err |-> Errorf("open log file: ", opened.err)]
        ELSE [fs |-> opened.fs, err |-> NilErr]

(***************************************************************************)
(* State.                                                                  *)
(***************************************************************************)
VARIABLES
    mu,         \* l.mu: the goroutine holding the lock, or NoProc
    logFile,    \* l.logFile: FilePtr or NilPtr
    std,        \* l.std
    file,       \* l.file
    fdOpen,     \* the descriptor behind l.logFile is open in the OS
    stdout,     \* lines written to os.Stdout
    logContent, \* lines appended to the log file
    stderr,     \* lines written to os.Stderr
    pc,         \* pc[p]: position of goroutine p
    call,       \* call[p]: frame of the method goroutine p is executing
    closes,     \* completed Close calls, in the order they held the lock
    nCalls,     \* number of method calls started
    ctor,       \* frame of the call of New that builds the instance
    fs,         \* the filesystem: its directories and regular files
    cli         \* the run of the command-line program, when there is one

vars == <<mu, logFile, std, file, fdOpen, stdout, logContent, stderr,
          pc, call, closes, nCalls, ctor, fs, cli>>

NoCall == [method |-> "none"]

Instance == [logFile |-> logFile, std |-> std, file |-> file]

\* createLoggerInstance(f), with f freshly opened by openLogFile.
createLoggerInstance ==
    /\ mu = NoProc
    /\ logFile = FilePtr
    /\ std = StdSink
    /\ file = FileSink
    /\ fdOpen = TRUE

\* The instance is used as a library: no command-line program runs.
NoCli == [stage |-> "none"]

NotCalled == "(not called)"

\* The frame of New(logDir, filename) at its first statement, on filesystem f.
NewCall(logDir, filename, f) ==
    [logDir |-> logDir, filename |-> filename, stage |-> "new",
     pathErr |-> NotCalled, nameErr |-> NotCalled,
     logPath |-> "", err |-> NilErr, fs0 |-> f]

\* The call of New that built the instance the goroutines share.
Built ==
    LET f0 == CHOOSE f \in InitialFilesystems : f.files = {}
        made == setupLogDirectory(f0, "logs", "test.log")
    IN  [ctor |-> [NewCall("logs", "test.log", f0) EXCEPT
                     !.stage = "done", !.pathErr = NilErr, !.nameErr = NilErr,
                     !.logPath = made.logPath],
         fs |-> openLogFile(made.fs, made.logPath).fs]

Init ==
    /\ createLoggerInstance
    /\ ctor = Built.ctor
    /\ fs = Built.fs
    /\ stdout = <<>>
    /\ logContent = <<>>
    /\ stderr = <<>>
    /\ pc = [p \in Procs |-> "idle"]
    /\ call = [p \in Procs |-> NoCall]
    /\ closes = <<>>
    /\ nCalls = 0
    /\ cli = NoCli

(***************************************************************************)
(* Logger Facade: each method enters write with its tag.                   *)
(***************************************************************************)
write(p, method, level, format, args) ==
    /\ pc[p] = "idle"
    /\ nCalls < MaxCalls
    /\ nCalls' = nCalls + 1
    /\ call' = [call EXCEPT ![p] =
                   [method |-> method, template |-> format, args0 |-> args,
                    level |-> level, format |-> format, args |-> args,
                    msg |-> "", sawOpen |-> FALSE, panic |-> FALSE,
                    outBase |-> 0, fileBase |-> 0, errBase |-> 0]]
    /\ pc' = [pc EXCEPT ![p] = "wLock"]
    /\ UNCHANGED <<mu, logFile, std, file, fdOpen, stdout, logContent,
                   stderr, closes>>
    /\ UNCHANGED <<ctor, fs, cli>>

Info(p) == \E in \in InputsOf("Info") : write(p, "Info", "INFO", in.format, in.args)
Warn(p) == \E in \in InputsOf("Warn") : write(p, "Warn", "WARN", in.format, in.args)
Error(p) == \E in \in InputsOf("Error") : write(p, "Error", "ERROR", in.format, in.args)
\* Variant: Success copied from Info with the tag left unchanged.
Success_AsInfo(p) ==
    \E in \in InputsOf("Success") :
        write(p, "Success", "INFO", in.format, in.args)

Success(p) ==
    \E in \in InputsOf("Success") :
        write(p, "Success", "SUCCESS", in.format, in.args)
Fatal(p) == \E in \in InputsOf("Fatal") : write(p, "Fatal", "FATAL", in.format, in.args)
Panic(p) == \E in \in InputsOf("Panic") : write(p, "Panic", "PANIC", in.format, in.args)
System(p) ==
    \E in \in InputsOf("System") :
        write(p, "System", "SYSTEM", in.format, in.args)


(***************************************************************************)
(* Logger.write, one step per statement.                                   *)
(***************************************************************************)
\* Variant: write enters without waiting for the lock.
WriteLock_NoWait(p) ==
    /\ pc[p] = "wLock"
    /\ mu' = p
    /\ call' = [call EXCEPT ![p].outBase = Len(stdout),
                            ![p].fileBase = Len(logContent),
                            ![p].errBase = Len(stderr)]
    /\ pc' = [pc EXCEPT ![p] = "wValidate"]
    /\ UNCHANGED <<logFile, std, file, fdOpen, stdout, logContent, stderr,
                   closes, nCalls>>
    /\ UNCHANGED <<ctor, fs, cli>>

\* l.mu.Lock()
WriteLock(p) ==
    /\ pc[p] = "wLock"
    /\ mu = NoProc
    /\ mu' = p
    /\ call' = [call EXCEPT ![p].outBase = Len(stdout),
                            ![p].fileBase = Len(logContent),
                            ![p].errBase = Len(stderr)]
    /\ pc' = [pc EXCEPT ![p] = "wValidate"]
    /\ UNCHANGED <<logFile, std, file, fdOpen, stdout, logContent, stderr,
                   closes, nCalls>>
    /\ UNCHANGED <<ctor, fs, cli>>

\* format = l.validateFormat(format)
WriteValidateFormat(p) ==
    /\ pc[p] = "wValidate"
    /\ call' = [call EXCEPT ![p].format = validateFormat(call[p].format)]
    /\ pc' = [pc EXCEPT ![p] = "wCheck"]
    /\ UNCHANGED <<mu, logFile, std, file, fdOpen, stdout, logContent,
                   stderr, closes, nCalls>>
    /\ UNCHANGED <<ctor, fs, cli>>

\* Variant: write never takes the closed branch.
WriteCheckClosed_NoCheck(p) ==
    /\ pc[p] = "wCheck"
    /\ call' = [call EXCEPT ![p].sawOpen = (logFile # NilPtr)]
    /\ pc' = [pc EXCEPT ![p] = "wPrepare"]
    /\ UNCHANGED <<mu, logFile, std, file, fdOpen, stdout, logContent,
                   stderr, closes, nCalls>>
    /\ UNCHANGED <<ctor, fs, cli>>

\* if l.logFile == nil
WriteCheckClosed(p) ==
    /\ pc[p] = "wCheck"
    /\ call' = [call EXCEPT ![p].sawOpen = (logFile # NilPtr)]
    /\ pc' = [pc EXCEPT ![p] =
                 IF logFile = NilPtr THEN "wFallback" ELSE "wPrepare"]
    /\ UNCHANGED <<mu, logFile, std, file, fdOpen, stdout, logContent,
                   stderr, closes, nCalls>>
    /\ UNCHANGED <<ctor, fs, cli>>

\* Variant: the fallback reopens the log file for the next write.
writeToStderrFallback_Reopen(p) ==
    /\ pc[p] = "wFallback"
    /\ stderr' = stderr
                   \o safeFormat(call[p].format, call[p].args).report
                   \o <<FallbackLine(call[p].level, call[p].format,
                                     call[p].args)>>
    /\ call' = [call EXCEPT ![p].panic =
                   safeFormat(call[p].format, call[p].args).escapes]
    /\ logFile' = FilePtr
    /\ fdOpen' = TRUE
    /\ pc' = [pc EXCEPT ![p] = "wUnlock"]
    /\ UNCHANGED <<mu, std, file, stdout, logContent, closes, nCalls>>
    /\ UNCHANGED <<ctor, fs, cli>>

\* l.writeToStderrFallback(level, format, args...); return
writeToStderrFallback(p) ==
    /\ pc[p] = "wFallback"
    /\ stderr' = stderr
                   \o safeFormat(call[p].format, call[p].args).report
                   \o <<FallbackLine(call[p].level, call[p].format,
                                     call[p].args)>>
    /\ call' = [call EXCEPT ![p].panic =
                   safeFormat(call[p].format, call[p].args).escapes]
    /\ pc' = [pc EXCEPT ![p] = "wUnlock"]
    /\ UNCHANGED <<mu, logFile, std, file, fdOpen, stdout, logContent,
                   closes, nCalls>>
    /\ UNCHANGED <<ctor, fs, cli>>

\* msg := l.prepareMessage(level, format, args...); if msg != ""
WritePrepare(p) ==
    /\ pc[p] = "wPrepare"
    /\ LET msg == prepareMessage(call[p].level, call[p].format, call[p].args)
           sf == safeFormat(call[p].format, call[p].args)
       IN /\ call' = [call EXCEPT ![p].msg = msg, ![p].panic = sf.escapes]
          /\ pc' = [pc EXCEPT ![p] =
                       IF msg # "" /\ ~sf.escapes THEN "wStd" ELSE "wUnlock"]
    /\ stderr' = stderr \o safeFormat(call[p].format, call[p].args).report
    /\ UNCHANGED <<mu, logFile, std, file, fdOpen, stdout, logContent,
                   closes, nCalls>>
    /\ UNCHANGED <<ctor, fs, cli>>

\* l.std.Println(msg)
OutputStd(p) ==
    /\ pc[p] = "wStd"
    /\ stdout' = Append(stdout, Println(std, call[p].msg))
    /\ pc' = [pc EXCEPT ![p] = "wFile"]
    /\ UNCHANGED <<mu, logFile, std, file, fdOpen, logContent, stderr,
                   call, closes, nCalls>>
    /\ UNCHANGED <<ctor, fs, cli>>

\* l.file.Println(msg): the write fails, and the failure is dropped, when
\* the descriptor is already closed.
OutputFile(p) ==
    /\ pc[p] = "wFile"
    /\ logContent' = IF fdOpen
                     THEN Append(logContent, Println(file, call[p].msg))
                     ELSE logContent
    /\ pc' = [pc EXCEPT ![p] = "wUnlock"]
    /\ UNCHANGED <<mu, logFile, std, file, fdOpen, stdout, stderr,
                   call, closes, nCalls>>
    /\ UNCHANGED <<ctor, fs, cli>>

\* defer l.mu.Unlock(), and the return to the caller; a panic that left
\* safeFormat unwinds through write and ends the goroutine.
WriteUnlock(p) ==
    /\ pc[p] = "wUnlock"
    /\ mu' = IF mu = p THEN NoProc ELSE mu
    /\ pc' = [pc EXCEPT ![p] = IF call[p].panic THEN "crashed" ELSE "idle"]
    /\ call' = [call EXCEPT ![p] = NoCall]
    /\ UNCHANGED <<logFile, std, file, fdOpen, stdout, logContent, stderr,
                   closes, nCalls>>
    /\ UNCHANGED <<ctor, fs, cli>>

(***************************************************************************)
(* Logger.Close, one step per statement.                                   *)
(***************************************************************************)
Close(p) ==
    /\ pc[p] = "idle"
    /\ nCalls < MaxCalls
    /\ nCalls' = nCalls + 1
    /\ call' = [call EXCEPT ![p] =
                   [method |-> "Close", err |-> NilErr, ret |-> NilErr,
                    released |-> FALSE, before |-> Instance]]
    /\ pc' = [pc EXCEPT ![p] = "cLock"]
    /\ UNCHANGED <<mu, logFile, std, file, fdOpen, stdout, logContent,
                   stderr, closes>>
    /\ UNCHANGED <<ctor, fs, cli>>

\* Variant: Close enters without waiting for the lock.
CloseLock_NoWait(p) ==
    /\ pc[p] = "cLock"
    /\ mu' = p
    /\ call' = [call EXCEPT ![p].before = Instance]
    /\ pc' = [pc EXCEPT ![p] = "cCheck"]
    /\ UNCHANGED <<logFile, std, file, fdOpen, stdout, logContent, stderr,
                   closes, nCalls>>
    /\ UNCHANGED <<ctor, fs, cli>>

\* l.mu.Lock()
CloseLock(p) ==
    /\ pc[p] = "cLock"
    /\ mu = NoProc
    /\ mu' = p
    /\ call' = [call EXCEPT ![p].before = Instance]
    /\ pc' = [pc EXCEPT ![p] = "cCheck"]
    /\ UNCHANGED <<logFile, std, file, fdOpen, stdout, logContent, stderr,
                   closes, nCalls>>
    /\ UNCHANGED <<ctor, fs, cli>>

\* Variant: Close releases the handle without testing it for nil.
CloseCheck_NoCheck(p) ==
    /\ pc[p] = "cCheck"
    /\ pc' = [pc EXCEPT ![p] = "cRelease"]
    /\ UNCHANGED <<mu, logFile, std, file, fdOpen, stdout, logContent,
                   stderr, call, closes, nCalls>>
    /\ UNCHANGED <<ctor, fs, cli>>

\* if l.logFile != nil
CloseCheck(p) ==
    /\ pc[p] = "cCheck"
    /\ pc' = [pc EXCEPT ![p] =
                 IF logFile # NilPtr THEN "cRelease" ELSE "cReturn"]
    /\ UNCHANGED <<mu, logFile, std, file, fdOpen, stdout, logContent,
                   stderr, call, closes, nCalls>>
    /\ UNCHANGED <<ctor, fs, cli>>

\* err := l.logFile.Close(): the descriptor is released whether or not the
\* system call reports an error; closing a nil or closed file is an error.
CloseRelease(p) ==
    /\ pc[p] = "cRelease"
    /\ \E e \in IF logFile # NilPtr /\ fdOpen
                THEN {NilErr, "input/output error"}
                ELSE IF logFile = NilPtr THEN {"invalid argument"}
                ELSE {"file already closed"} :
          call' = [call EXCEPT ![p].err = e, ![p].released = TRUE]
    /\ fdOpen' = FALSE
    /\ pc' = [pc EXCEPT ![p] = "cAssign"]
    /\ UNCHANGED <<mu, logFile, std, file, stdout, logContent, stderr,
                   closes, nCalls>>
    /\ UNCHANGED <<ctor, fs, cli>>

\* Variant: the handle is forgotten only when its release succeeded.
CloseAssign_OnSuccess(p) ==
    /\ pc[p] = "cAssign"
    /\ logFile' = IF call[p].err = NilErr THEN NilPtr ELSE logFile
    /\ pc' = [pc EXCEPT ![p] = "cWrap"]
    /\ UNCHANGED <<mu, std, file, fdOpen, stdout, logContent, stderr,
                   call, closes, nCalls>>
    /\ UNCHANGED <<ctor, fs, cli>>

\* Variant: Close also drops the file-bound sink.
CloseAssign_DropSink(p) ==
    /\ pc[p] = "cAssign"
    /\ logFile' = NilPtr
    /\ file' = NilPtr
    /\ pc' = [pc EXCEPT ![p] = "cWrap"]
    /\ UNCHANGED <<mu, std, fdOpen, stdout, logContent, stderr,
                   call, closes, nCalls>>
    /\ UNCHANGED <<ctor, fs, cli>>

\* l.logFile = nil
CloseAssign(p) ==
    /\ pc[p] = "cAssign"
    /\ logFile' = NilPtr
    /\ pc' = [pc EXCEPT ![p] = "cWrap"]
    /\ UNCHANGED <<mu, std, file, fdOpen, stdout, logContent, stderr,
                   call, closes, nCalls>>
    /\ UNCHANGED <<ctor, fs, cli>>

\* return fmt.Errorf("close log file: %w", err)
CloseWrap(p) ==
    /\ pc[p] = "cWrap"
    /\ call' = [call EXCEPT ![p].ret = Errorf("close log file: ", call[p].err)]
    /\ pc' = [pc EXCEPT ![p] = "cReturn"]
    /\ UNCHANGED <<mu, logFile, std, file, fdOpen, stdout, logContent,
                   stderr, closes, nCalls>>
    /\ UNCHANGED <<ctor, fs, cli>>

\* defer l.mu.Unlock(), and the return of call[p].ret to the caller
CloseUnlock(p) ==
    /\ pc[p] = "cReturn"
    /\ mu' = IF mu = p THEN NoProc ELSE mu
    /\ closes' = Append(closes,
                        [proc |-> p, released |-> call[p].released,
                         err |-> call[p].err, ret |-> call[p].ret,
                         before |-> call[p].before, after |-> Instance])
    /\ pc' = [pc EXCEPT ![p] = "idle"]
    /\ call' = [call EXCEPT ![p] = NoCall]
    /\ UNCHANGED <<logFile, std, file, fdOpen, stdout, logContent, stderr,
                   nCalls>>
    /\ UNCHANGED <<ctor, fs, cli>>

(***************************************************************************)
(* Specification.                                                          *)
(***************************************************************************)
Next ==
    \E p \in Procs :
        \/ Info(p) \/ Warn(p) \/ Error(p) \/ Success(p)
        \/ Fatal(p) \/ Panic(p) \/ System(p)
        \/ WriteLock(p) \/ WriteValidateFormat(p) \/ WriteCheckClosed(p)
        \/ writeToStderrFallback(p) \/ WritePrepare(p)
        \/ OutputStd(p) \/ OutputFile(p) \/ WriteUnlock(p)
        \/ Close(p) \/ CloseLock(p) \/ CloseCheck(p) \/ CloseRelease(p)
        \/ CloseAssign(p) \/ CloseWrap(p) \/ CloseUnlock(p)

Spec == Init /\ [][Next]_vars

(***************************************************************************)
(* One goroutine, one severity call over a wide range of templates and     *)
(* operands, before and after Close: the rendering pipeline of write.      *)
(***************************************************************************)
Margin == 2        \* rendered lengths tried on each side of the maximum

LongLens ==
    { n \in 1..(maxLogMessageLength + Margin) :
          n >= maxLogMessageLength - Margin } \cup {5000}

WideInputs ==
    { In("", <<>>),
      In("", <<StrArg("some"), StrArg("args")>>),
      In("", <<IntArg(42)>>),
      In("ok", <<>>),
      In("100% complete", <<>>),
      In("Progress: %d%%", <<>>),
      In("%s %d", <<>>),
      In("%", <<>>),
      In("hello %s", <<StrArg("world")>>),
      In("Values: %s %d", <<StrArg("test")>>),
      In("value: %d %s", <<IntArg(42)>>),
      In("Low disk space: %d%% remaining", <<IntArg(15)>>),
      In("ok", <<StrArg("extra")>>),
      In("value: %v", <<Faulty>>),
      In("%s and %v", <<StrArg("x"), Faulty>>),
      In("value: %v", <<FaultyAlways>>),
      In("Long message: %s", <<StrArg(Repeat("A", 5000))>>) }
    \cup { In("%s", <<StrArg(Repeat("A", n))>>) : n \in LongLens }
    \cup { In(Repeat("B", n), <<>>) : n \in LongLens }

\* The seven methods of the facade, by name.
Facade(p, method, format, args) ==
    \/ method = "Info" /\ write(p, "Info", "INFO", format, args)
    \/ method = "Warn" /\ write(p, "Warn", "WARN", format, args)
    \/ method = "Error" /\ write(p, "Error", "ERROR", format, args)
    \/ method = "Success" /\ write(p, "Success", "SUCCESS", format, args)
    \/ method = "Fatal" /\ write(p, "Fatal", "FATAL", format, args)
    \/ method = "Panic" /\ write(p, "Panic", "PANIC", format, args)
    \/ method = "System" /\ write(p, "System", "SYSTEM", format, args)

\* The first severity call of the goroutine, with any method and input.
Severity(p) ==
    /\ nCalls = Len(closes)
    /\ \E method \in {"Info", "Warn", "Error", "Success", "Fatal", "Panic",
                      "System"}, in \in WideInputs :
          Facade(p, method, in.format, in.args)

WriteNext ==
    \E p \in {1} :
        \/ Severity(p)
        \/ WriteLock(p) \/ WriteValidateFormat(p) \/ WriteCheckClosed(p)
        \/ writeToStderrFallback(p) \/ WritePrepare(p)
        \/ OutputStd(p) \/ OutputFile(p) \/ WriteUnlock(p)
        \/ Close(p) \/ CloseLock(p) \/ CloseCheck(p) \/ CloseRelease(p)
        \/ CloseAssign(p) \/ CloseWrap(p) \/ CloseUnlock(p)

WriteSpec == Init /\ [][WriteNext]_vars

(***************************************************************************)
(* New, step by step, on every pair of inputs of the bounded sets.         *)
(***************************************************************************)
\* No instance yet: what the caller holds until New returns one.
NoInstance ==
    /\ mu = NoProc
    /\ logFile = NilPtr
    /\ std = NilPtr
    /\ file = NilPtr

NewInit ==
    /\ \E logDir \in Strings(MaxDirLen), filename \in Strings(MaxNameLen),
          f \in InitialFilesystems :
          /\ ctor = NewCall(logDir, filename, f)
          /\ fs = f
    /\ NoInstance
    /\ fdOpen = FALSE
    /\ stdout = <<>>
    /\ logContent = <<>>
    /\ stderr = <<>>
    /\ pc = [p \in Procs |-> "idle"]
    /\ call = [p \in Procs |-> NoCall]
    /\ closes = <<>>
    /\ nCalls = 0
    /\ cli = NoCli

\* Variant: the directory is created before the inputs are validated.
NewValidateInputs_MkdirFirst ==
    /\ ctor.stage = "new"
    /\ LET pathErr == ValidatePath(ctor.logDir)
           err == validateInputs(ctor.logDir, ctor.filename)
       IN  ctor' = [ctor EXCEPT
                      !.pathErr = pathErr,
                      !.nameErr = IF pathErr = NilErr
                                  THEN ValidateFilename(ctor.filename)
                                  ELSE NotCalled,
                      !.err = err,
                      !.stage = IF err = NilErr THEN "setup" ELSE "failed"]
    /\ fs' = MkdirAll(fs, ctor.logDir).fs
    /\ UNCHANGED <<mu, logFile, std, file, fdOpen, stdout, logContent, stderr,
                   pc, call, closes, nCalls>>
    /\ UNCHANGED cli

\* err := validateInputs(logDir, filename); if err != nil { return nil, err }
NewValidateInputs ==
    /\ ctor.stage = "new"
    /\ LET pathErr == ValidatePath(ctor.logDir)
           err == validateInputs(ctor.logDir, ctor.filename)
       IN  ctor' = [ctor EXCEPT
                      !.pathErr = pathErr,
                      !.nameErr = IF pathErr = NilErr
                                  THEN ValidateFilename(ctor.filename)
                                  ELSE NotCalled,
                      !.err = err,
                      !.stage = IF err = NilErr THEN "setup" ELSE "failed"]
    /\ UNCHANGED <<mu, logFile, std, file, fdOpen, stdout, logContent, stderr,
                   pc, call, closes, nCalls, fs>>
    /\ UNCHANGED cli

\* logPath, err := setupLogDirectory(logDir, filename)
NewSetupLogDirectory ==
    /\ ctor.stage = "setup"
    /\ LET r == setupLogDirectory(fs, ctor.logDir, ctor.filename)
       IN  /\ fs' = r.fs
           /\ ctor' = [ctor EXCEPT
                         !.logPath = r.logPath,
                         !.err = r.err,
                         !.stage = IF r.err = NilErr THEN "bounds" ELSE "failed"]
    /\ UNCHANGED <<mu, logFile, std, file, fdOpen, stdout, logContent, stderr,
                   pc, call, closes, nCalls>>
    /\ UNCHANGED cli

\* err = validateLogPath(logDir, logPath)
NewValidateLogPath ==
    /\ ctor.stage = "bounds"
    /\ LET err == validateLogPath(ctor.logDir, ctor.logPath)
       IN  ctor' = [ctor EXCEPT
                      !.err = err,
                      !.stage = IF err = NilErr THEN "open" ELSE "failed"]
    /\ UNCHANGED <<mu, logFile, std, file, fdOpen, stdout, logContent, stderr,
                   pc, call, closes, nCalls, fs>>
    /\ UNCHANGED cli

\* f, err := openLogFile(logPath)
NewOpenLogFile ==
    /\ ctor.stage = "open"
    /\ LET r == openLogFile(fs, ctor.logPath)
       IN  /\ fs' = r.fs
           /\ fdOpen' = (r.err = NilErr)
           /\ ctor' = [ctor EXCEPT
                         !.err = r.err,
                         !.stage = IF r.err = NilErr THEN "create" ELSE "failed"]
    /\ UNCHANGED <<mu, logFile, std, file, stdout, logContent, stderr,
                   pc, call, closes, nCalls>>
    /\ UNCHANGED cli

\* return createLoggerInstance(f), nil
NewCreateLoggerInstance ==
    /\ ctor.stage = "create"
    /\ mu' = NoProc
    /\ logFile' = FilePtr
    /\ std' = StdSink
    /\ file' = FileSink
    /\ ctor' = [ctor EXCEPT !.stage = "done"]
    /\ UNCHANGED <<fdOpen, stdout, logContent, stderr, pc, call, closes,
                   nCalls, fs>>
    /\ UNCHANGED cli

NewNext ==
    \/ NewValidateInputs
    \/ NewSetupLogDirectory
    \/ NewValidateLogPath
    \/ NewOpenLogFile
    \/ NewCreateLoggerInstance

NewSpec == NewInit /\ [][NewNext]_vars

(***************************************************************************)
(* Vocabulary of the properties.                                           *)
(***************************************************************************)
SeverityMethods ==
    {"Info", "Warn", "Error", "Success", "Fatal", "Panic", "System"}

\* The tag each severity method is documented to log under.
LevelTag(method) ==
    CASE method = "Info" -> "INFO"
      [] method = "Warn" -> "WARN"
      [] method = "Error" -> "ERROR"
      [] method = "Success" -> "SUCCESS"
      [] method = "Fatal" -> "FATAL"
      [] method = "Panic" -> "PANIC"
      [] method = "System" -> "SYSTEM"

WritePcs ==
    {"wValidate", "wCheck", "wFallback", "wPrepare", "wStd", "wFile",
     "wUnlock"}
ClosePcs == {"cCheck", "cRelease", "cAssign", "cWrap", "cReturn"}

\* Goroutine p is between Lock and Unlock of write or Close.
InCriticalSection(p) == pc[p] \in WritePcs \cup ClosePcs

Open == logFile # NilPtr
Closed == logFile = NilPtr

InWrite(p) == call[p].method \in SeverityMethods

\* A write of p has done all its work and is about to unlock and return.
WriteDone(p) == pc[p] = "wUnlock" /\ InWrite(p)

\* The lines the current write of p has put on the error stream.
NewStderr(p) == { i \in 1..Len(stderr) : i > call[p].errBase }

ClosedMarkerLines(p) ==
    { i \in NewStderr(p) :
        HasPrefix(stderr[i],
                  "[" \o LevelTag(call[p].method) \o "] (logger closed) ") }

(***************************************************************************)
(* C1: at most one write or Close is between Lock and Unlock at any        *)
(* instant, and every step of write and of Close between the two is taken  *)
(* by the goroutine that holds the instance lock.                          *)
(***************************************************************************)
C1_MutualExclusion ==
    /\ \A p, q \in Procs :
          p # q => ~(InCriticalSection(p) /\ InCriticalSection(q))
    /\ \A p \in Procs : InCriticalSection(p) => mu = p

\* One goroutine is inside while another waits at Lock.
C1_Witness ==
    \E p, q \in Procs :
        /\ p # q
        /\ InCriticalSection(p)
        /\ pc[q] \in {"wLock", "cLock"}

(***************************************************************************)
(* C2: a write that observed the Open state still has the open handle      *)
(* until both of its emissions are done: no console or file emission       *)
(* happens after a Close released the handle.                              *)
(***************************************************************************)
C2_NoEmitAfterRelease ==
    \A p \in Procs :
        pc[p] \in {"wPrepare", "wStd", "wFile"} => (fdOpen /\ Open)

\* A write is between its two emissions while a Close is pending.
C2_Witness ==
    \E p, q \in Procs :
        /\ pc[p] = "wFile"
        /\ pc[q] = "cLock"

C4_Lifecycle ==
    [][ /\ Closed => Closed'
        /\ logFile' # logFile =>
              \E p \in Procs : pc[p] = "cAssign" /\ pc'[p] # "cAssign"
        /\ \A p \in Procs :
              (InWrite(p) /\ pc'[p] # pc[p]) =>
                  (logFile' = logFile /\ pc'[p] # "crashed") ]_vars

\* A Fatal call completes on an instance that is already Closed.
C4_Witness ==
    \E p \in Procs :
        /\ WriteDone(p)
        /\ call[p].method \in {"Fatal", "Panic"}
        /\ Closed

(***************************************************************************)
(* C5: every Close after the first returns no error and leaves the         *)
(* instance exactly as the first Close left it.                            *)
(***************************************************************************)
C5_CloseIdempotent ==
    \A i \in 2..Len(closes) :
        /\ closes[i].ret = NilErr
        /\ closes[i].after = closes[1].after
        /\ closes[i].before = closes[i].after

\* Two Close calls have returned and a write fell back in between or after.
C5_Witness ==
    /\ Len(closes) >= 2
    /\ stderr # <<>>

(***************************************************************************)
(* C6: Close returns a non-nil error only when it is the first Close and   *)
(* the release of the handle failed; a first Close whose release succeeds  *)
(* returns no error.                                                       *)
(***************************************************************************)
C6_CloseErrorOnlyOnFailedRelease ==
    \A i \in 1..Len(closes) :
        closes[i].ret # NilErr => (i = 1 /\ closes[i].err # NilErr)

(***************************************************************************)
(* C7 as stated: with no call in progress, the instance is Closed exactly  *)
(* when some Close call succeeded, a Close whose release failed not        *)
(* counting as successful.                                                 *)
(***************************************************************************)
C7_ClosedIffSuccessfulClose ==
    mu = NoProc =>
        (Closed <=> \E i \in 1..Len(closes) : closes[i].err = NilErr)

(***************************************************************************)
(* C7 amended: the instance moves from Open to Closed exactly once, on the *)
(* first Close call, whether or not the release of the handle succeeds:    *)
(* with no call in progress it is Closed exactly when some Close call has  *)
(* returned, and every later Close changes nothing.                        *)
(***************************************************************************)
C7_ClosedIffCloseReturned ==
    /\ mu = NoProc => (Closed <=> Len(closes) >= 1)
    /\ \A i \in 1..Len(closes) :
          /\ closes[i].after.logFile = NilPtr
          /\ (closes[i].before.logFile # NilPtr) <=> (i = 1)
          /\ closes[i].released <=> (i = 1)
          /\ i > 1 => closes[i].after = closes[i].before

\* The first Close failed to release the handle and a second Close returned.
C7_Witness ==
    /\ Len(closes) >= 2
    /\ closes[1].err # NilErr
    /\ mu = NoProc
    /\ Closed

(***************************************************************************)
(* C8 as stated: the file handle and the file-bound sink are both present  *)
(* or both absent in every state.                                          *)
(***************************************************************************)
C8_HandleAndSinkTogether ==
    (logFile = NilPtr) <=> (file = NilPtr)

(***************************************************************************)
(* C8 amended: whenever the file handle is present the file-bound sink is  *)
(* present; Close removes only the handle, in one step, and the sink field *)
(* stays set (it is no longer written to once the handle is gone).         *)
(***************************************************************************)
C8_SinkOutlivesHandle ==
    /\ file = FileSink
    /\ std = StdSink
    /\ logFile # NilPtr => file # NilPtr
    /\ \A i \in 1..Len(closes) :
          closes[i].after = [closes[i].before EXCEPT !.logFile = NilPtr]
    /\ \A p \in Procs : pc[p] \in {"wStd", "wFile"} => Open

\* A Close has returned: the handle is gone and the sink is still set.
C8_Witness ==
    /\ Len(closes) >= 1
    /\ logFile = NilPtr
    /\ file = FileSink

(***************************************************************************)
(* C9: a severity call on an Open instance appends exactly one line to the *)
(* console and exactly one to the file, both with the same text: the       *)
(* bracketed level tag, one space, the rendered message (as the package    *)
(* tests expect it for their calls).                                       *)
(***************************************************************************)
ExpectedText(method, template, args) ==
    CASE method = "Info" /\ template = "hello %s"
             /\ args = <<StrArg("world")>> -> "[INFO] hello world"
      [] method = "Warn" -> "[WARN] warn 42"
      [] method = "Error" -> "[ERROR] err 1"
      [] method = "Success" -> "[SUCCESS] ok"
      [] method = "Fatal" -> "[FATAL] system failure: disk full"
      [] method = "Panic" -> "[PANIC] panic condition: nil pointer"
      [] method = "System" -> "[SYSTEM] system event: startup complete"
      [] OTHER -> "any"

C9_OpenWriteEmitsToBothSinks ==
    \A p \in Procs :
        (WriteDone(p) /\ call[p].sawOpen) =>
            /\ Len(stdout) = call[p].outBase + 1
            /\ Len(logContent) = call[p].fileBase + 1
            /\ stdout[Len(stdout)].text = logContent[Len(logContent)].text
            /\ LET text == logContent[Len(logContent)].text
                   want == ExpectedText(call[p].method, call[p].template,
                                        call[p].args0)
               IN /\ HasPrefix(text,
                               "[" \o LevelTag(call[p].method) \o "] ")
                  /\ want # "any" => text = want

\* Info("hello %s", "world") has put "[INFO] hello world" in the file.
C9_Witness ==
    \E p \in Procs :
        /\ WriteDone(p)
        /\ call[p].sawOpen
        /\ call[p].method = "Info"
        /\ call[p].template = "hello %s"
        /\ logContent[Len(logContent)].text = "[INFO] hello world"

(***************************************************************************)
(* C10: each facade method hands write its own tag and the caller's        *)
(* template and arguments, and no level is filtered: on an Open instance   *)
(* a call at any level produces an entry on both sinks.                    *)
(***************************************************************************)
C10_FacadePassThrough ==
    \A p \in Procs :
        InWrite(p) =>
            /\ call[p].level = LevelTag(call[p].method)
            /\ call[p].args = call[p].args0
            /\ pc[p] \in {"wLock", "wValidate"} =>
                  call[p].format = call[p].template
            /\ (WriteDone(p) /\ call[p].sawOpen) =>
                  /\ Len(stdout) > call[p].outBase
                  /\ Len(logContent) > call[p].fileBase
                  /\ logContent[Len(logContent)].text = call[p].msg

\* A Success call has produced its entry on an Open instance.
C10_Witness ==
    \E p \in Procs :
        /\ WriteDone(p)
        /\ call[p].sawOpen
        /\ call[p].method = "Success"
        /\ call[p].level = "SUCCESS"
        /\ logContent[Len(logContent)].text = "[SUCCESS] ok"

(***************************************************************************)
(* Vocabulary of the rendering properties.                                 *)
(***************************************************************************)
StripPrefix(str, prefix) == SubSeq(str, Len(prefix) + 1, Len(str))

OpenPrefix(p) == "[" \o LevelTag(call[p].method) \o "] "
ClosedPrefix(p) == "[" \o LevelTag(call[p].method) \o "] (logger closed) "

\* The messages the finished write of p has logged: the text after the tag
\* of its file lines when it saw the instance Open, the text after the
\* marker of its error-stream lines when it saw it Closed.
LoggedMsgs(p) ==
    IF call[p].sawOpen
    THEN { StripPrefix(logContent[i].text, OpenPrefix(p)) :
              i \in { j \in 1..Len(logContent) : j > call[p].fileBase } }
    ELSE { StripPrefix(stderr[i], ClosedPrefix(p)) :
              i \in ClosedMarkerLines(p) }

FaultReports(p) ==
    { i \in NewStderr(p) : HasPrefix(stderr[i], "[LOGGER ERROR] ") }

(***************************************************************************)
(* C11: a call with an empty template logs exactly the placeholder         *)
(* "(empty message)", whatever arguments come with it.                     *)
(***************************************************************************)
C11_EmptyTemplateRendersPlaceholder ==
    \A p \in Procs :
        (WriteDone(p) /\ call[p].template = "") =>
            LoggedMsgs(p) = {"(empty message)"}

(***************************************************************************)
(* C12: a non-empty template called without arguments is rendered          *)
(* unchanged, percent signs and verbs included, with no formatting fault.  *)
(***************************************************************************)
C12_NoArgsRendersTemplate ==
    \A p \in Procs :
        (WriteDone(p) /\ call[p].template # "" /\ call[p].args0 = <<>>) =>
            /\ FaultReports(p) = {}
            /\ ~call[p].panic
            /\ Cardinality(LoggedMsgs(p)) = 1
            /\ \A m \in LoggedMsgs(p) :
                  IF call[p].sawOpen
                     /\ Len(call[p].template) > maxLogMessageLength
                  THEN HasPrefix(call[p].template, SubSeq(m, 1, Len(m) - 15))
                  ELSE m = call[p].template

\* Info("Progress: %d%%") has put the template itself in the file.
C12_Witness ==
    \E p \in Procs :
        /\ WriteDone(p)
        /\ call[p].sawOpen
        /\ call[p].template = "Progress: %d%%"
        /\ call[p].args0 = <<>>
        /\ logContent[Len(logContent)].text = "[INFO] Progress: %d%%"

(***************************************************************************)
(* C13: when rendering raises a fault (and safeFormat recovers from it),   *)
(* the message logged is the fallback string with the raw template and the *)
(* argument list, and the fault is reported once on the error stream.      *)
(***************************************************************************)
C13_FaultLogsFallback ==
    \A p \in Procs :
        (WriteDone(p) /\ call[p].args0 # <<>> /\ SprintfPanics(call[p].args0)
            /\ ~call[p].panic)
        =>  /\ Cardinality(FaultReports(p)) = 1
            /\ LoggedMsgs(p) # {}
            /\ \A m \in LoggedMsgs(p) :
                  HasPrefix(m, "(format error: " \o call[p].format
                                   \o ") args=")

(***************************************************************************)
(* C14: a severity call that took the lock runs to its end and gives the   *)
(* lock back, whatever happens inside; no fault reaches the caller.        *)
(***************************************************************************)
C14_WriteCompletes ==
    \A p \in Procs :
        /\ pc[p] # "crashed"
        /\ pc[p] \in {"idle", "crashed"} => mu # p
        /\ InWrite(p) => ~call[p].panic

(***************************************************************************)
(* C15: on an Open instance a rendered message longer than 4096 is logged  *)
(* as a prefix of it followed by the "[TRUNCATED]" marker, at most 4096    *)
(* long in total; a rendered message of at most 4096 (4096 included) is    *)
(* logged unchanged.                                                       *)
(***************************************************************************)
\* The rendered message of the calls whose rendering is plain to read off.
Rendered(template, args) ==
    IF args = <<>> THEN template
    ELSE IF template = "%s" THEN args[1].val
    ELSE IF template = "Long message: %s"
         THEN "Long message: " \o args[1].val
    ELSE "?"

C15_TruncatesOverLongMessages ==
    \A p \in Procs :
        LET r == Rendered(call[p].template, call[p].args0) IN
        (WriteDone(p) /\ call[p].sawOpen /\ call[p].template # "" /\ r # "?")
        =>  /\ Cardinality(LoggedMsgs(p)) = 1
            /\ \A m \in LoggedMsgs(p) :
                  IF Len(r) > 4096
                  THEN /\ Len(m) <= 4096
                       /\ m = SubSeq(r, 1, Len(m) - 15) \o "... [TRUNCATED]"
                  ELSE m = r

\* A rendered message of 4097 characters has been logged cut and marked.
C15_Witness ==
    \E p \in Procs :
        /\ WriteDone(p)
        /\ call[p].sawOpen
        /\ call[p].template = "%s"
        /\ Len(call[p].args0[1].val) = 4097
        /\ \E m \in LoggedMsgs(p) :
              /\ Len(m) < 4097
              /\ SubSeq(m, Len(m) - 10, Len(m)) = "[TRUNCATED]"

(***************************************************************************)
(* Vocabulary of the constructor properties.                               *)
(***************************************************************************)
\* tok occurs in s at some position.
Occurs(s, tok) ==
    \E i \in 1..(Len(s) - Len(tok) + 1) : SubSeq(s, i, i + Len(tok) - 1) = tok

HasTraversal(s) == Occurs(s, "..") \/ Occurs(s, "~")

HasSeparator(s) == Occurs(s, "/") \/ Occurs(s, "\\")

ValidDir == ctor.logDir # "" /\ ~HasTraversal(ctor.logDir)

ValidName ==
    /\ ctor.filename # ""
    /\ ~HasTraversal(ctor.filename)
    /\ ~HasSeparator(ctor.filename)

\* New has returned, with an instance ("done") or with an error ("failed").
NewReturned == ctor.stage \in {"done", "failed"}

\* The bounds check of New has run, and has let the path through.
BoundsChecked == ctor.logPath # "" /\ ctor.stage # "bounds"

Accepted == ctor.stage \in {"open", "create", "done"}

AbsDir == Abs(ctor.logDir)

AbsPath == Abs(Join(ctor.logDir, ctor.filename))

StrictPrefix(prefix, s) ==
    /\ Len(prefix) < Len(s)
    /\ SubSeq(s, 1, Len(prefix)) = prefix

\* path is dir or lies below it: element by element.
Inside(dir, path) ==
    LET de == Elements(dir, "")
        pe == Elements(path, "")
    IN  /\ Len(de) <= Len(pe)
        /\ SubSeq(pe, 1, Len(de)) = de

\* Nothing on the filesystem New started on stands in the way of creating
\* the directory.
Permitted == Ancestors(AbsDir) \cap ctor.fs0.files = {}

(***************************************************************************)
(* C16. ValidatePath(p) returns an error exactly when p is empty or        *)
(* contains ".." or "~": the empty-path error for the empty path, the      *)
(* invalid-characters error for every other rejected path; it looks at the *)
(* text only and leaves the filesystem as it was.                          *)
(***************************************************************************)
C16_ValidatePathLexical ==
    ctor.pathErr # NotCalled =>
        LET p == ctor.logDir
        IN  /\ (ctor.pathErr # NilErr) <=> (p = "" \/ HasTraversal(p))
            /\ p = "" => ctor.pathErr = ErrPathCannotBeEmpty
            /\ (p # "" /\ HasTraversal(p)) =>
                   ctor.pathErr = ErrPathContainsInvalidChars
            /\ ctor.pathErr # NilErr => fs = ctor.fs0
            /\ ctor.stage = "setup" => fs = ctor.fs0

C16_Witness ==
    /\ ctor.pathErr = ErrPathContainsInvalidChars
    /\ Occurs(ctor.logDir, "~")
    /\ ~Occurs(ctor.logDir, "..")

(***************************************************************************)
(* C17. ValidateFilename(f) returns an error exactly when f is empty or    *)
(* contains "/", "\", ".." or "~": the empty-filename error for the empty  *)
(* name, the invalid-characters error for every other rejected name.       *)
(***************************************************************************)
C17_ValidateFilenameLexical ==
    ctor.nameErr # NotCalled =>
        LET f == ctor.filename
        IN  /\ (ctor.nameErr # NilErr) <=>
                   (f = "" \/ HasSeparator(f) \/ HasTraversal(f))
            /\ f = "" => ctor.nameErr = ErrFilenameCannotBeEmpty
            /\ (f # "" /\ (HasSeparator(f) \/ HasTraversal(f))) =>
                   ctor.nameErr = ErrFilenameContainsInvalid

C17_Witness ==
    /\ ctor.nameErr = ErrFilenameContainsInvalid
    /\ Occurs(ctor.filename, "\\")
    /\ ~Occurs(ctor.filename, "/")
    /\ ~HasTraversal(ctor.filename)

(***************************************************************************)
(* C18. For every valid directory path and valid filename, where nothing   *)
(* stands in the way of creating the directory, New succeeds and returns   *)
(* an Open instance, and afterwards the directory, its parents and the log *)
(* file exist.                                                             *)
(***************************************************************************)
C18_ValidInputsConstruct ==
    (NewReturned /\ ValidDir /\ ValidName /\ Permitted) =>
        /\ ctor.stage = "done"
        /\ ctor.err = NilErr
        /\ Open
        /\ fdOpen
        /\ Ancestors(AbsDir) \subseteq fs.dirs
        /\ AbsPath \in fs.files

(***************************************************************************)
(* C19. When the directory path or the filename contains ".." or "~", New  *)
(* returns no instance and an error: "invalid log directory: path contains *)
(* invalid characters" when the directory contains one, "invalid filename: *)
(* filename contains invalid characters" when the directory is valid and   *)
(* the filename contains one.                                              *)
(***************************************************************************)
C19_TraversalTokensRejected ==
    (NewReturned /\ (HasTraversal(ctor.logDir) \/ HasTraversal(ctor.filename))) =>
        /\ ctor.stage = "failed"
        /\ NoInstance
        /\ ~fdOpen
        /\ HasTraversal(ctor.logDir) =>
               ctor.err = "invalid log directory: path contains invalid characters"
        /\ (ValidDir /\ HasTraversal(ctor.filename)) =>
               ctor.err = "invalid filename: filename contains invalid characters"

C19_Witness ==
    /\ ctor.stage = "failed"
    /\ ValidDir
    /\ HasTraversal(ctor.filename)
    /\ ctor.err = "invalid filename: filename contains invalid characters"

(***************************************************************************)
(* C20, as stated. For a pair that passes the lexical checks, on a         *)
(* filesystem that lets the directory be created, New returns the          *)
(* out-of-bounds error unless the absolute directory followed by a         *)
(* separator is a strict prefix of the absolute joined path; in particular *)
(* a joined path that is the directory itself is rejected with that error; *)
(* and no accepted log path lies outside the directory.                    *)
(***************************************************************************)
C20_StrictPrefixOrOutOfBounds ==
    /\ (NewReturned /\ ValidDir /\ ValidName /\ Permitted) =>
           (~StrictPrefix(AbsDir \o Separator, AbsPath) =>
                ctor.err = ErrLogPathOutsideBounds)
    /\ Accepted => Inside(AbsDir, AbsPath)

(***************************************************************************)
(* C20, amended. Once the directory is created, New returns the            *)
(* out-of-bounds error exactly when the absolute joined path is neither    *)
(* the absolute directory itself nor has the absolute directory followed   *)
(* by a separator as a strict prefix. A joined path that is the directory  *)
(* itself passes the bounds check, and New then fails at opening it and    *)
(* returns no instance. No accepted log path lies outside the directory.   *)
(***************************************************************************)
C20_OutOfBoundsUnlessDirOrBelow ==
    /\ BoundsChecked =>
           ((ctor.err = ErrLogPathOutsideBounds) <=>
                ~(\/ AbsPath = AbsDir
                  \/ StrictPrefix(AbsDir \o Separator, AbsPath)))
    /\ (BoundsChecked /\ NewReturned /\ AbsPath = AbsDir) =>
           /\ ctor.stage = "failed"
           /\ ctor.err = "open log file: is a directory"
           /\ NoInstance
    /\ Accepted => Inside(AbsDir, AbsPath)

C20_Witness ==
    /\ ctor.stage = "failed"
    /\ ValidDir
    /\ ValidName
    /\ ctor.err = ErrLogPathOutsideBounds

(***************************************************************************)
(* Vocabulary of the line format.                                          *)
(***************************************************************************)
\* text is "[LEVEL] " followed by a message, for one of the seven levels.
HasLevelTag(text) ==
    \E method \in SeverityMethods :
        HasPrefix(text, "[" \o LevelTag(method) \o "] ")

(***************************************************************************)
(* C21, as stated. Every line of the log file is "[LEVEL] <message>" with  *)
(* nothing before the tag; only the console line carries a timestamp.      *)
(***************************************************************************)
C21_OnlyConsoleStamped ==
    /\ \A i \in 1..Len(logContent) :
           ~logContent[i].stamped /\ HasLevelTag(logContent[i].text)
    /\ \A i \in 1..Len(stdout) :
           stdout[i].stamped /\ HasLevelTag(stdout[i].text)

(***************************************************************************)
(* C21, amended. Every line of the log file and every line of the console  *)
(* is a timestamp header followed by "[LEVEL] <message>": both sinks are   *)
(* built with the same flags.                                              *)
(***************************************************************************)
C21_BothSinksStamped ==
    /\ \A i \in 1..Len(logContent) :
           logContent[i].stamped /\ HasLevelTag(logContent[i].text)
    /\ \A i \in 1..Len(stdout) :
           stdout[i].stamped /\ HasLevelTag(stdout[i].text)

C21_Witness ==
    /\ Len(logContent) = 1
    /\ Len(stdout) = 1
    /\ logContent[1].text = "[WARN] Values: test %!d(MISSING)"

(***************************************************************************)
(* C26. The message a severity call on a Closed instance writes after the  *)
(* "(logger closed)" marker is the one an Open instance would have logged: *)
(* never longer than 4096 characters, and cut and marked "[TRUNCATED]"     *)
(* when the rendered message was longer.                                   *)
(***************************************************************************)
C26_ClosedLineTruncated ==
    \A p \in Procs :
        LET r == Rendered(call[p].template, call[p].args0) IN
        (WriteDone(p) /\ ~call[p].sawOpen /\ call[p].template # "" /\ r # "?")
        =>  /\ Cardinality(LoggedMsgs(p)) = 1
            /\ \A m \in LoggedMsgs(p) :
                  IF Len(r) > 4096
                  THEN /\ Len(m) <= 4096
                       /\ m = SubSeq(r, 1, Len(m) - 15) \o "... [TRUNCATED]"
                  ELSE m = r

(***************************************************************************)
(* C27. New validates both inputs before it touches the filesystem: when   *)
(* ValidatePath or ValidateFilename rejects, no directory and no file is   *)
(* created and no instance is returned. The directory is created only      *)
(* after both checks pass, and before the bounds check and the open, so a  *)
(* failure of either of those leaves the directory in place.               *)
(***************************************************************************)
C27_ValidationBeforeEffects ==
    /\ (ctor.pathErr \notin {NotCalled, NilErr}
            \/ ctor.nameErr \notin {NotCalled, NilErr}) =>
           /\ ctor.stage = "failed"
           /\ fs = ctor.fs0
           /\ NoInstance
           /\ ~fdOpen
    /\ fs # ctor.fs0 => (ctor.pathErr = NilErr /\ ctor.nameErr = NilErr)
    /\ ctor.stage \in {"bounds", "open", "create", "done"} =>
           Ancestors(AbsDir) \subseteq fs.dirs
    /\ (ctor.stage = "failed" /\ ctor.logPath # "") =>
           /\ Ancestors(AbsDir) \subseteq fs.dirs
           /\ fs.files = ctor.fs0.files
           /\ NoInstance

\* New has created the directory and then failed.
C27_Witness ==
    /\ ctor.stage = "failed"
    /\ ctor.logPath # ""
    /\ AbsDir \notin ctor.fs0.dirs
    /\ AbsDir \in fs.dirs

(***************************************************************************)
(* Vocabulary of the sink order.                                           *)
(***************************************************************************)
\* The messages of a sink, in the order they were written.
Texts(lines) == [i \in 1..Len(lines) |-> lines[i].text]

\* Goroutine p holds the lock in a write that found the instance Open and
\* has not written yet.
BeforeOutput(p) ==
    \/ pc[p] \in {"wValidate", "wCheck", "wPrepare", "wStd"}
    \/ pc[p] = "wUnlock" /\ InWrite(p) /\ call[p].msg = ""

(***************************************************************************)
(* C28. The console and the file hold the same messages in the same order  *)
(* whenever no write is between its two outputs, and otherwise the console *)
(* holds exactly one more, the line of the write holding the lock. Each    *)
(* write puts its line at the position the sinks had when it acquired the  *)
(* lock, so the order is the order of acquisition and the lines of two     *)
(* writes never interleave.                                                *)
(***************************************************************************)
C28_SinksAgreeInLockOrder ==
    /\ Len(stdout) \in {Len(logContent), Len(logContent) + 1}
    /\ SubSeq(Texts(stdout), 1, Len(logContent)) = Texts(logContent)
    /\ (\A p \in Procs : pc[p] # "wFile") => Texts(stdout) = Texts(logContent)
    /\ \A p \in Procs :
           /\ BeforeOutput(p) =>
                  /\ Len(stdout) = call[p].outBase
                  /\ Len(logContent) = call[p].fileBase
           /\ pc[p] = "wFile" =>
                  /\ Len(stdout) = call[p].outBase + 1
                  /\ Len(logContent) = call[p].fileBase
                  /\ stdout[Len(stdout)].text = call[p].msg
           /\ (pc[p] = "wUnlock" /\ InWrite(p) /\ call[p].msg # "") =>
                  /\ Len(stdout) = call[p].outBase + 1
                  /\ Len(logContent) = call[p].fileBase + 1
                  /\ stdout[Len(stdout)].text = call[p].msg
                  /\ logContent[Len(logContent)].text = call[p].msg

\* One goroutine is between its two outputs while the other waits for the
\* lock, after an earlier write went to both sinks.
C28_Witness ==
    \E p, q \in Procs :
        /\ p # q
        /\ pc[p] = "wFile"
        /\ pc[q] = "wLock"
        /\ InWrite(q)
        /\ Len(logContent) >= 1
        /\ Len(stdout) = Len(logContent) + 1

(***************************************************************************)
(* The command-line program: its constants and pure helpers.               *)
(***************************************************************************)
defaultLogLevel == "info"

defaultLogDir == "./logs"

logLevelINFO == "INFO"

\* The formats below end a line; the line end is the line structure of the
\* standard logger's output and is not part of the text.
errorFormat == "error: "

errorClosingLogger == "error closing logger: "

errorCreatingLogger == "error creating logger: "

daemonStartedMsg == "Logger daemon started, reading from stdin..."

daemonStartedInfoFmt == "Logger daemon started: %s/%s"

daemonUsageMsg == "Send log messages in format: LEVEL:MESSAGE"

daemonExampleMsg == "Example: INFO:Application started"

daemonStopMsg == "Press Ctrl+C to stop"

daemonStoppedMsg == "Logger daemon stopped"

daemonStdinErrorFmt == "error reading from stdin: %v"

\* The first line of the usage text stands for all of it.
helpText == "Logger - Standalone logging service"

ErrFileRequired == "-file is required"

ErrMessageRequired == "-message is required"

ErrUnknownLogLevel == "unknown log level"

\* daemonLogFilenameFmt with time.Now().Format(daemonTimestampFmt) at the
\* start of the run.
generateDaemonFilename ==
    Sprintf("daemon-%s.log", <<StrArg("20261105-151733")>>)

\* Variant: only the filename is required.
validateArgs_FileOnly(filename, message) ==
    IF filename = "" THEN ErrFileRequired ELSE NilErr

validateArgs(filename, message) ==
    IF filename = ""
    THEN ErrFileRequired
    ELSE IF message = "" THEN ErrMessageRequired ELSE NilErr

\* The handler tables, each handler by the facade method it calls.
getLevelHandlers ==
    [level \in {"info", "warn", "error", "success", "fatal", "panic", "system"} |->
        CASE level = "info" -> "Info"
          [] level = "warn" -> "Warn"
          [] level = "error" -> "Error"
          [] level = "success" -> "Success"
          [] level = "fatal" -> "Fatal"
          [] level = "panic" -> "Panic"
          [] level = "system" -> "System"]

getDaemonLevelHandlers ==
    [level \in {logLevelINFO, "WARN", "ERROR", "SUCCESS", "FATAL", "PANIC", "SYSTEM"} |->
        CASE level = logLevelINFO -> "Info"
          [] level = "WARN" -> "Warn"
          [] level = "ERROR" -> "Error"
          [] level = "SUCCESS" -> "Success"
          [] level = "FATAL" -> "Fatal"
          [] level = "PANIC" -> "Panic"
          [] level = "SYSTEM" -> "System"]

RECURSIVE Cut(_, _, _)
\* strings.Cut(s, sep) for a separator of one character; before is the text
\* already read.
Cut(before, s, sep) ==
    IF s = ""
    THEN [before |-> before, after |-> "", found |-> FALSE]
    ELSE IF SubSeq(s, 1, 1) = sep
         THEN [before |-> before, after |-> Tail(s), found |-> TRUE]
         ELSE Cut(before \o SubSeq(s, 1, 1), Tail(s), sep)

RECURSIVE CutLast(_, _)
\* The same cut at the last separator of s.
CutLast(s, sep) ==
    LET c == Cut("", s, sep)
    IN  IF ~c.found \/ ~Cut("", c.after, sep).found
        THEN c
        ELSE LET r == CutLast(c.after, sep)
             IN  [before |-> c.before \o sep \o r.before, after |-> r.after,
                  found |-> TRUE]

\* Variant: the line is split on its last colon.
parseLogLine_LastColon(line) ==
    LET c == CutLast(line, ":")
    IN  IF ~c.found
        THEN [level |-> logLevelINFO, message |-> line]
        ELSE [level |-> c.before, message |-> c.after]

\* Variant: a line with an unknown level token is kept whole.
parseLogLine_KeepUnknown(line) ==
    LET c == Cut("", line, ":")
    IN  IF ~c.found \/ c.before \notin DOMAIN getDaemonLevelHandlers
        THEN [level |-> logLevelINFO, message |-> line]
        ELSE [level |-> c.before, message |-> c.after]

parseLogLine(line) ==
    LET c == Cut("", line, ":")
    IN  IF ~c.found
        THEN [level |-> logLevelINFO, message |-> line]
        ELSE [level |-> c.before, message |-> c.after]

\* The handler logMessageInDaemon calls: the one of the table, or Info.
logMessageInDaemon(level) ==
    IF level \in DOMAIN getDaemonLevelHandlers
    THEN getDaemonLevelHandlers[level]
    ELSE "Info"

(***************************************************************************)
(* The inputs of the program: flag values and lines on standard input.     *)
(***************************************************************************)
\* Most lines a run reads from standard input.
MaxLines == 2

LowerNames == {"info", "warn", "error", "success", "fatal", "panic", "system"}

UpperNames == {"INFO", "WARN", "ERROR", "SUCCESS", "FATAL", "PANIC", "SYSTEM"}

Config(logDir, filename, level, message, help, daemon) ==
    [logDir |-> logDir, filename |-> filename, level |-> level,
     message |-> message, help |-> help, daemon |-> daemon]

SingleConfigs ==
    { Config(d, f, l, m, FALSE, FALSE) :
        d \in {defaultLogDir, "/"},
        f \in {"", "app.log", "."},
        l \in LowerNames \cup UpperNames \cup {"debug", ""},
        m \in {"", "Application started", "Low disk space: 85% full"} }

DaemonConfigs ==
    { Config(d, "", defaultLogLevel, "", FALSE, TRUE) :
        d \in {defaultLogDir, ".."} }

HelpConfigs ==
    { Config(defaultLogDir, f, defaultLogLevel, "", TRUE, dm) :
        f \in {"", "app.log"}, dm \in BOOLEAN }

InputLines ==
    { name \o ":disk full" : name \in UpperNames }
        \cup {"error:disk full", "no colon here", "", "ERROR:", ":x",
              "WARN:a:b", "DEBUG:x"}

RECURSIVE Inputs(_)
Inputs(n) ==
    IF n = 0
    THEN {<<>>}
    ELSE LET S == Inputs(n - 1)
         IN  S \cup {Append(s, l) : s \in {t \in S : Len(t) = n - 1},
                                   l \in InputLines}

(***************************************************************************)
(* The run of the program, one step per function; a call into the library  *)
(* by this only goroutine runs from Lock to Unlock in one step.            *)
(***************************************************************************)
\* The standard logger of package log: timestamped lines on os.Stderr.
StdLog(text) == Println("stderr", text)

\* l.<method>(format, args...) on the instance of the program.
writeAtOnce(method, format, args) ==
    LET level == LevelTag(method)
        f == validateFormat(format)
        sf == safeFormat(f, args)
        msg == prepareMessage(level, f, args)
    IN  IF logFile = NilPtr
        THEN /\ stderr' = stderr \o sf.report \o <<FallbackLine(level, f, args)>>
             /\ UNCHANGED <<stdout, logContent>>
        ELSE /\ stderr' = stderr \o sf.report
             /\ stdout' = IF msg # ""
                          THEN Append(stdout, Println(std, msg))
                          ELSE stdout
             /\ logContent' = IF msg # "" /\ fdOpen
                              THEN Append(logContent, Println(file, msg))
                              ELSE logContent

Called(method, format, args) ==
    [method |-> method, format |-> format, args |-> args]

CliInit ==
    /\ \E cfg \in SingleConfigs \cup DaemonConfigs \cup HelpConfigs,
          input \in Inputs(MaxLines),
          \* scanner.Err() once the lines are read: nil at the end of input.
          readErr \in {NilErr, "read /dev/stdin: input/output error"},
          f \in InitialFilesystems :
          /\ (~cfg.daemon \/ cfg.help) => (input = <<>> /\ readErr = NilErr)
          /\ f.files = {}
          /\ cli = [stage |-> "run", cfg |-> cfg, input |-> input,
                    stdin |-> input, readErr |-> readErr, filename |-> "",
                    err |-> NilErr, calls |-> <<>>, log |-> <<>>,
                    exit |-> -1, fs0 |-> f]
          /\ fs = f
          /\ ctor = [NewCall("", "", f) EXCEPT !.stage = "idle"]
    /\ NoInstance
    /\ fdOpen = FALSE
    /\ stdout = <<>>
    /\ logContent = <<>>
    /\ stderr = <<>>
    /\ pc = [p \in Procs |-> "idle"]
    /\ call = [p \in Procs |-> NoCall]
    /\ closes = <<>>
    /\ nCalls = 0

\* run: the help text, the daemon or the single message.
run ==
    /\ cli.stage = "run"
    /\ cli' = IF cli.cfg.help
              THEN [cli EXCEPT !.log = Append(@, StdLog(helpText)),
                               !.err = NilErr, !.stage = "return"]
              ELSE IF cli.cfg.daemon
                   THEN [cli EXCEPT !.stage = "runDaemon"]
                   ELSE [cli EXCEPT !.stage = "runSingleMessage"]
    /\ UNCHANGED <<mu, logFile, std, file, fdOpen, stdout, logContent, stderr,
                   pc, call, closes, nCalls, ctor, fs>>

\* runSingleMessage up to the call of logger.New.
runSingleMessage ==
    /\ cli.stage = "runSingleMessage"
    /\ LET err == validateArgs(cli.cfg.filename, cli.cfg.message)
       IN  IF err # NilErr
           THEN /\ cli' = [cli EXCEPT !.log = Append(@, StdLog(helpText)),
                                      !.err = err, !.stage = "return"]
                /\ UNCHANGED ctor
           ELSE /\ cli' = [cli EXCEPT !.filename = cli.cfg.filename,
                                      !.stage = "createLogger"]
                /\ ctor' = NewCall(cli.cfg.logDir, cli.cfg.filename, fs)
    /\ UNCHANGED <<mu, logFile, std, file, fdOpen, stdout, logContent, stderr,
                   pc, call, closes, nCalls, fs>>

\* runDaemon up to the call of logger.New.
runDaemon ==
    /\ cli.stage = "runDaemon"
    /\ cli' = [cli EXCEPT !.filename = generateDaemonFilename,
                          !.stage = "createLogger"]
    /\ ctor' = NewCall(cli.cfg.logDir, generateDaemonFilename, fs)
    /\ UNCHANGED <<mu, logFile, std, file, fdOpen, stdout, logContent, stderr,
                   pc, call, closes, nCalls, fs>>

\* createLogger, once logger.New has returned.
createLogger ==
    /\ cli.stage = "createLogger"
    /\ ctor.stage \in {"done", "failed"}
    /\ cli' = IF ctor.err # NilErr
              THEN [cli EXCEPT !.err = Errorf(errorCreatingLogger, ctor.err),
                               !.stage = "return"]
              ELSE [cli EXCEPT !.stage = IF cli.cfg.daemon
                                         THEN "startDaemon"
                                         ELSE "logMessage"]
    /\ UNCHANGED <<mu, logFile, std, file, fdOpen, stdout, logContent, stderr,
                   pc, call, closes, nCalls, ctor, fs>>

\* Variant: an unknown level is logged as INFO, as the daemon does.
logMessage_DefaultInfo ==
    /\ cli.stage = "logMessage"
    /\ LET method == IF cli.cfg.level \in DOMAIN getLevelHandlers
                     THEN getLevelHandlers[cli.cfg.level]
                     ELSE "Info"
       IN  /\ writeAtOnce(method, cli.cfg.message, <<>>)
           /\ cli' = [cli EXCEPT
                        !.calls = Append(@, Called(method, cli.cfg.message, <<>>)),
                        !.err = NilErr, !.stage = "closeLogger"]
    /\ UNCHANGED <<mu, logFile, std, file, fdOpen, pc, call, closes, nCalls,
                   ctor, fs>>

\* logMessage(loggerInstance, cfg.level, cfg.message)
logMessage ==
    /\ cli.stage = "logMessage"
    /\ IF cli.cfg.level \in DOMAIN getLevelHandlers
       THEN LET method == getLevelHandlers[cli.cfg.level]
            IN  /\ writeAtOnce(method, cli.cfg.message, <<>>)
                /\ cli' = [cli EXCEPT
                             !.calls = Append(@, Called(method, cli.cfg.message, <<>>)),
                             !.err = NilErr, !.stage = "closeLogger"]
       ELSE /\ cli' = [cli EXCEPT
                         !.err = ErrUnknownLogLevel \o ": '" \o cli.cfg.level \o "'",
                         !.stage = "closeLogger"]
            /\ UNCHANGED <<stdout, logContent, stderr>>
    /\ UNCHANGED <<mu, logFile, std, file, fdOpen, pc, call, closes, nCalls,
                   ctor, fs>>

\* Variant: the daemon starts without its system-level entry.
startDaemon_Silent ==
    /\ cli.stage = "startDaemon"
    /\ cli' = [cli EXCEPT
                 !.log = @ \o <<StdLog(Sprintf(daemonStartedInfoFmt,
                                               <<StrArg(cli.cfg.logDir),
                                                 StrArg(cli.filename)>>)),
                                StdLog(daemonUsageMsg),
                                StdLog(daemonExampleMsg),
                                StdLog(daemonStopMsg)>>,
                 !.stage = "processDaemonInput"]
    /\ UNCHANGED <<mu, logFile, std, file, fdOpen, pc, call, closes, nCalls,
                   ctor, fs, stdout, logContent, stderr>>

\* startDaemon(loggerInstance, logDir, filename)
startDaemon ==
    /\ cli.stage = "startDaemon"
    /\ writeAtOnce("System", daemonStartedMsg, <<>>)
    /\ cli' = [cli EXCEPT
                 !.calls = Append(@, Called("System", daemonStartedMsg, <<>>)),
                 !.log = @ \o <<StdLog(Sprintf(daemonStartedInfoFmt,
                                               <<StrArg(cli.cfg.logDir),
                                                 StrArg(cli.filename)>>)),
                                StdLog(daemonUsageMsg),
                                StdLog(daemonExampleMsg),
                                StdLog(daemonStopMsg)>>,
                 !.stage = "processDaemonInput"]
    /\ UNCHANGED <<mu, logFile, std, file, fdOpen, pc, call, closes, nCalls,
                   ctor, fs>>

\* One turn of the scanner loop: processLogLine(loggerInstance, scanner.Text())
processLogLine ==
    /\ cli.stage = "processDaemonInput"
    /\ cli.stdin # <<>>
    /\ LET line == Head(cli.stdin)
           parsed == parseLogLine(line)
           method == logMessageInDaemon(parsed.level)
       IN  IF line = ""
           THEN /\ cli' = [cli EXCEPT !.stdin = Tail(@)]
                /\ UNCHANGED <<stdout, logContent, stderr>>
           ELSE /\ writeAtOnce(method, parsed.message, <<>>)
                /\ cli' = [cli EXCEPT
                             !.stdin = Tail(@),
                             !.calls = Append(@, Called(method, parsed.message, <<>>))]
    /\ UNCHANGED <<mu, logFile, std, file, fdOpen, pc, call, closes, nCalls,
                   ctor, fs>>

\* The end of processDaemonInput: scanner.Scan() is false, scanner.Err().
processDaemonInput ==
    /\ cli.stage = "processDaemonInput"
    /\ cli.stdin = <<>>
    /\ IF cli.readErr # NilErr
       THEN /\ writeAtOnce("Error", daemonStdinErrorFmt, <<ErrArg(cli.readErr)>>)
            /\ cli' = [cli EXCEPT
                         !.calls = Append(@, Called("Error", daemonStdinErrorFmt,
                                                    <<ErrArg(cli.readErr)>>)),
                         !.stage = "stopDaemon"]
       ELSE /\ cli' = [cli EXCEPT !.stage = "stopDaemon"]
            /\ UNCHANGED <<stdout, logContent, stderr>>
    /\ UNCHANGED <<mu, logFile, std, file, fdOpen, pc, call, closes, nCalls,
                   ctor, fs>>

\* loggerInstance.System(daemonStoppedMsg); return nil
stopDaemon ==
    /\ cli.stage = "stopDaemon"
    /\ writeAtOnce("System", daemonStoppedMsg, <<>>)
    /\ cli' = [cli EXCEPT
                 !.calls = Append(@, Called("System", daemonStoppedMsg, <<>>)),
                 !.err = NilErr, !.stage = "closeLogger"]
    /\ UNCHANGED <<mu, logFile, std, file, fdOpen, pc, call, closes, nCalls,
                   ctor, fs>>

\* defer closeLogger(loggerInstance): the whole of Close, and the report of
\* the error it returns.
closeLogger ==
    /\ cli.stage = "closeLogger"
    /\ \E err \in {NilErr, "input/output error"} :
          LET ret == IF logFile # NilPtr
                     THEN Errorf("close log file: ", err)
                     ELSE NilErr
          IN  /\ logFile = NilPtr => err = NilErr
              /\ closes' = Append(closes,
                                  [proc |-> 1, released |-> logFile # NilPtr,
                                   err |-> err, ret |-> ret,
                                   before |-> Instance,
                                   after |-> [Instance EXCEPT !.logFile = NilPtr]])
              /\ cli' = [cli EXCEPT
                           !.log = IF ret # NilErr
                                   THEN Append(@, StdLog(errorClosingLogger \o ret))
                                   ELSE @,
                           !.stage = "return"]
    /\ logFile' = NilPtr
    /\ fdOpen' = FALSE
    /\ UNCHANGED <<mu, std, file, stdout, logContent, stderr, pc, call,
                   nCalls, ctor, fs>>

\* main, after run has returned.
main ==
    /\ cli.stage = "return"
    /\ cli' = IF cli.err # NilErr
              THEN [cli EXCEPT !.log = Append(@, StdLog(errorFormat \o cli.err)),
                               !.exit = 1, !.stage = "exit"]
              ELSE [cli EXCEPT !.exit = 0, !.stage = "exit"]
    /\ UNCHANGED <<mu, logFile, std, file, fdOpen, stdout, logContent, stderr,
                   pc, call, closes, nCalls, ctor, fs>>

CliNext ==
    \/ run
    \/ runSingleMessage
    \/ runDaemon
    \/ NewValidateInputs
    \/ NewSetupLogDirectory
    \/ NewValidateLogPath
    \/ NewOpenLogFile
    \/ NewCreateLoggerInstance
    \/ createLogger
    \/ logMessage
    \/ startDaemon
    \/ processLogLine
    \/ processDaemonInput
    \/ stopDaemon
    \/ closeLogger
    \/ main

CliSpec == CliInit /\ [][CliNext]_vars

(***************************************************************************)
(* Vocabulary of the command-line properties.                              *)
(***************************************************************************)
SingleMode == ~cli.cfg.help /\ ~cli.cfg.daemon

DaemonMode == ~cli.cfg.help /\ cli.cfg.daemon

Exited == cli.stage = "exit"

\* logger.New has returned an instance to the program.
Constructed == ctor.stage = "done"

HelpShown == \E i \in 1..Len(cli.log) : cli.log[i].text = helpText

\* No entry on any sink, and no facade method called.
NoEntries ==
    /\ stdout = <<>>
    /\ logContent = <<>>
    /\ stderr = <<>>
    /\ cli.calls = <<>>

\* The facade method a level name stands for, in either spelling.
LevelMethod(name) ==
    CASE name \in {"info", "INFO"} -> "Info"
      [] name \in {"warn", "WARN"} -> "Warn"
      [] name \in {"error", "ERROR"} -> "Error"
      [] name \in {"success", "SUCCESS"} -> "Success"
      [] name \in {"fatal", "FATAL"} -> "Fatal"
      [] name \in {"panic", "PANIC"} -> "Panic"
      [] name \in {"system", "SYSTEM"} -> "System"
      [] OTHER -> "none"

HasColon(line) == \E i \in 1..Len(line) : SubSeq(line, i, i) = ":"

FirstColon(line) ==
    CHOOSE i \in 1..Len(line) :
        /\ SubSeq(line, i, i) = ":"
        /\ \A j \in 1..(i - 1) : SubSeq(line, j, j) # ":"

\* The text before and after the first colon of a line that has one.
Token(line) == SubSeq(line, 1, FirstColon(line) - 1)

Body(line) == SubSeq(line, FirstColon(line) + 1, Len(line))

NonEmpty(line) == line # ""

\* The non-empty lines the daemon has read so far, and all of them.
LinesRead ==
    SelectSeq(SubSeq(cli.input, 1, Len(cli.input) - Len(cli.stdin)), NonEmpty)

LinesGiven == SelectSeq(cli.input, NonEmpty)

\* The daemon is past its start-up entry.
DaemonStarted ==
    /\ DaemonMode
    /\ Constructed
    /\ cli.stage \notin {"createLogger", "startDaemon"}

\* The call a daemon line stands for: the method of its upper-case level
\* token with the text after the first colon, else Info.
ExpectedCall(line) ==
    IF ~HasColon(line)
    THEN Called("Info", line, <<>>)
    ELSE IF Token(line) \in UpperNames
         THEN Called(LevelMethod(Token(line)), Body(line), <<>>)
         ELSE Called("Info", Body(line), <<>>)

\* The line a call without arguments leaves in the sinks.
EntryText(c) ==
    "[" \o LevelTag(c.method) \o "] "
        \o (IF c.format = "" THEN "(empty message)" ELSE c.format)

(***************************************************************************)
(* C22. In single-message mode with an empty filename or an empty message  *)
(* the program shows the usage text and exits with a non-zero status; it   *)
(* creates no logger, no directory and no file and logs no entry.          *)
(***************************************************************************)
C22_MissingArgumentShowsUsage ==
    (SingleMode /\ (cli.cfg.filename = "" \/ cli.cfg.message = "")) =>
        /\ cli.stage \in {"run", "runSingleMessage", "return", "exit"}
        /\ ctor.stage = "idle"
        /\ NoInstance
        /\ ~fdOpen
        /\ fs = cli.fs0
        /\ NoEntries
        /\ cli.stage \in {"return", "exit"} => HelpShown
        /\ Exited => cli.exit = 1

C22_Witness ==
    /\ SingleMode
    /\ cli.cfg.filename # ""
    /\ cli.cfg.message = ""
    /\ Exited
    /\ HelpShown
    /\ cli.exit = 1

(***************************************************************************)
(* C23. Each of the seven level names is accepted in lower case and in     *)
(* upper case and dispatches to the same facade method, as the value of    *)
(* the level flag in single-message mode and as the level token of a       *)
(* daemon input line.                                                      *)
(***************************************************************************)
C23_LevelNamesCaseInsensitive ==
    /\ (SingleMode /\ Exited /\ Constructed
            /\ LevelMethod(cli.cfg.level) # "none") =>
           /\ cli.calls = <<Called(LevelMethod(cli.cfg.level), cli.cfg.message, <<>>)>>
           /\ cli.exit = 0
    /\ DaemonStarted =>
           \A i \in 1..Len(LinesRead) :
               (HasColon(LinesRead[i])
                    /\ LevelMethod(Token(LinesRead[i])) # "none") =>
                   cli.calls[i + 1] =
                       Called(LevelMethod(Token(LinesRead[i])),
                              Body(LinesRead[i]), <<>>)

(***************************************************************************)
(* C24. The daemon splits every non-empty line on its first colon and      *)
(* calls the facade method of the level token with the text after the      *)
(* colon; a line without a colon and a line with an unrecognized token go  *)
(* to Info. "ERROR:disk full" gives Error("disk full"), "no colon here"    *)
(* gives Info("no colon here").                                            *)
(***************************************************************************)
C24_DaemonLineDispatch ==
    DaemonStarted =>
        /\ Len(cli.calls) >= 1 + Len(LinesRead)
        /\ Len(logContent) >= 1 + Len(LinesRead)
        /\ \A i \in 1..Len(LinesRead) :
               /\ cli.calls[i + 1] = ExpectedCall(LinesRead[i])
               /\ logContent[i + 1].text = EntryText(ExpectedCall(LinesRead[i]))

C24_Witness ==
    /\ DaemonMode
    /\ Constructed
    /\ Exited
    /\ cli.input = <<"ERROR:disk full", "no colon here">>
    /\ cli.calls[2] = Called("Error", "disk full", <<>>)
    /\ cli.calls[3] = Called("Info", "no colon here", <<>>)
    /\ logContent[2].text = "[ERROR] disk full"
    /\ logContent[3].text = "[INFO] no colon here"

(***************************************************************************)
(* C25. A daemon run logs its start-up entry first, then one entry for     *)
(* each line it dispatches, in input order, then an error entry when       *)
(* reading failed, then the stop entry, all of them while the logger is    *)
(* Open; after that it closes the logger and ends with status 0.           *)
(***************************************************************************)
C25_DaemonEntryOrder ==
    (DaemonMode /\ Constructed) =>
        /\ DaemonStarted =>
               /\ Len(cli.calls) >= 1
               /\ cli.calls[1] = Called("System", daemonStartedMsg, <<>>)
        /\ Closed => cli.stage \in {"return", "exit"}
        /\ Len(logContent) = Len(cli.calls)
        /\ Len(stdout) = Len(cli.calls)
        /\ \A i \in 1..Len(cli.calls) :
               cli.calls[i].args = <<>> =>
                   logContent[i].text = EntryText(cli.calls[i])
        /\ stderr = <<>>
        /\ Exited =>
               /\ cli.calls =
                      <<Called("System", daemonStartedMsg, <<>>)>>
                          \o [i \in 1..Len(LinesGiven) |-> ExpectedCall(LinesGiven[i])]
                          \o (IF cli.readErr # NilErr
                              THEN <<Called("Error", daemonStdinErrorFmt,
                                            <<ErrArg(cli.readErr)>>)>>
                              ELSE <<>>)
                          \o <<Called("System", daemonStoppedMsg, <<>>)>>
               /\ logContent[Len(logContent)].text = "[SYSTEM] Logger daemon stopped"
               /\ cli.readErr # NilErr =>
                      logContent[Len(logContent) - 1].text =
                          "[ERROR] error reading from stdin: " \o cli.readErr
               /\ Closed
               /\ ~fdOpen
               /\ cli.exit = 0

\* A run that dispatched two lines, failed to read on, and ended.
C25_Witness ==
    /\ DaemonMode
    /\ Constructed
    /\ Exited
    /\ Len(LinesGiven) = 2
    /\ cli.readErr # NilErr
    /\ Len(logContent) = 5
    /\ cli.exit = 0

(***************************************************************************)
(* C29. A daemon line with a colon whose text before the first colon is    *)
(* not a recognized level token is logged at the informational level with  *)
(* only the text after the colon: the prefix does not appear in the entry. *)
(* A line without a colon is logged whole.                                 *)
(***************************************************************************)
C29_UnknownTokenDiscarded ==
    DaemonStarted =>
        \A i \in 1..Len(LinesRead) :
            LET line == LinesRead[i] IN
            /\ (HasColon(line) /\ Token(line) \notin UpperNames) =>
                   /\ cli.calls[i + 1] = Called("Info", Body(line), <<>>)
                   /\ logContent[i + 1].text =
                          "[INFO] " \o (IF Body(line) = ""
                                        THEN "(empty message)"
                                        ELSE Body(line))
                   /\ stdout[i + 1].text = logContent[i + 1].text
            /\ ~HasColon(line) =>
                   logContent[i + 1].text = "[INFO] " \o line

C29_Witness ==
    /\ DaemonStarted
    /\ Len(LinesRead) >= 1
    /\ LinesRead[1] = "DEBUG:x"
    /\ logContent[2].text = "[INFO] x"

(***************************************************************************)
(* C30. In single-message mode with a filename and a message, a level      *)
(* outside the handler table makes the program return the unknown-level    *)
(* error and exit non-zero without logging an entry to any sink. The level *)
(* is looked up only after the logger was constructed: the directory and   *)
(* the log file exist, and the logger is closed before the program ends.   *)
(***************************************************************************)
C30_UnknownLevelAfterConstruction ==
    (SingleMode /\ cli.cfg.filename # "" /\ cli.cfg.message # ""
         /\ cli.cfg.level \notin LowerNames) =>
        /\ NoEntries
        /\ cli.err = ErrUnknownLogLevel \o ": '" \o cli.cfg.level \o "'" =>
               /\ Constructed
               /\ cli.stage \in {"closeLogger", "return", "exit"}
        /\ (Constructed /\ cli.stage \in {"closeLogger", "return", "exit"}) =>
               /\ cli.err = ErrUnknownLogLevel \o ": '" \o cli.cfg.level \o "'"
               /\ Ancestors(Abs(cli.cfg.logDir)) \subseteq fs.dirs
               /\ Abs(Join(cli.cfg.logDir, cli.cfg.filename)) \in fs.files
        /\ (Constructed /\ Exited) =>
               /\ cli.exit = 1
               /\ Closed
               /\ ~fdOpen
               /\ Len(closes) = 1

C30_Witness ==
    /\ SingleMode
    /\ cli.cfg.level = "debug"
    /\ Constructed
    /\ Exited
    /\ cli.exit = 1
    /\ Closed

====
